---- MODULE Spec2Model ----
(***************************************************************************)
(* Model of zenoh-ext's PublicationCache (publication_cache.rs): the       *)
(* builder's staged configuration, PublicationCache::new (validation,      *)
(* declarations, the spawned select loop over the publication stream, the  *)
(* query stream and the stop channel) and PublicationCache::close; and of  *)
(* the session's SessionInfo::routers_zid (info.rs).                       *)
(***************************************************************************)
EXTENDS Integers, Sequences, FiniteSets, TLC

VARIABLES
    pub_key_expr,      \* conf.pub_key_expr : ZResult<KeyExpr>
    queryable_prefix,  \* conf.queryable_prefix : Option<ZResult<KeyExpr>>
    history,           \* conf.history : usize
    resources_limit,   \* conf.resources_limit : Option<usize>
    hlc,               \* conf.session.hlc().is_some()
    bpc,               \* position of the caller in new() / close()
    subs,              \* subscriptions registered in the session by this build
    quers,             \* queryables registered in the session by this build
    stoptx,            \* the Sender<bool> end of the stop channel
    teardown,          \* teardown steps in the order they were executed
    lpc,               \* position of the spawned task
    cache,             \* HashMap<OwnedKeyExpr, VecDeque<Sample>>
    sub_recv,          \* samples delivered by the session, not yet received
    quer_recv,         \* queries delivered by the session, not yet received
    query,             \* the query being answered
    pending,           \* samples the reply loops have still to reply with
    replied,           \* replies attempted for the query being answered
    published,         \* number of publications made so far
    handled,           \* samples received by the loop, in order
    dropped,           \* samples the loop refused with "resource_limit exceeded"
    whatami,           \* the WhatAmI the session's runtime runs as
    transports,        \* runtime.manager().get_transports()
    routers_zid        \* the iterator a routers_zid() call has returned

vars == <<pub_key_expr, queryable_prefix, history, resources_limit, hlc, bpc,
          subs, quers, stoptx, teardown, lpc, cache, sub_recv, quer_recv,
          query, pending, replied, published, handled, dropped, whatami,
          transports, routers_zid>>

conf_vars == <<pub_key_expr, queryable_prefix, history, resources_limit, hlc>>
loop_vars == <<lpc, cache, query, pending, replied, handled, dropped>>
info_vars == <<whatami, transports, routers_zid>>
cache_vars == <<conf_vars, bpc, subs, quers, stoptx, teardown, loop_vars,
                sub_recv, quer_recv, published>>

----------------------------------------------------------------------------
(* Bounds of the model *)

MaxHistory == 2
MaxLimit   == 2
MaxPubs    == 3
MaxQueue   == 1
MaxQueries == 1
MaxTransports == 2

(* usize::MAX: any number larger than every cache the model can build *)
usize_MAX == 1000000

----------------------------------------------------------------------------
(* Key expressions: sequences of chunks; "*" is one chunk, "**" any number *)

RECURSIVE intersects(_, _)
intersects(x, y) ==
    IF x = <<>> /\ y = <<>> THEN TRUE
    ELSE IF x = <<>> THEN Head(y) = "**" /\ intersects(x, Tail(y))
    ELSE IF y = <<>> THEN Head(x) = "**" /\ intersects(Tail(x), y)
    ELSE IF Head(x) = "**" THEN intersects(Tail(x), y) \/ intersects(x, Tail(y))
    ELSE IF Head(y) = "**" THEN intersects(x, Tail(y)) \/ intersects(Tail(x), y)
    ELSE (Head(x) = Head(y) \/ Head(x) = "*" \/ Head(y) = "*")
         /\ intersects(Tail(x), Tail(y))

(* key_expr.as_str().contains('*') *)
contains_wildcard(ke) == \E i \in 1..Len(ke) : ke[i] \in {"*", "**"}

(* prefix.join(&key_expr), (&ke) / &key_expr *)
join(prefix, ke) == prefix \o ke

None == [tag |-> "None"]
Err  == [tag |-> "Err"]
Ok(v) == [tag |-> "Ok", val |-> v]

(* The roles a zenoh node runs as, the ids of the nodes a session may *)
(* be connected to and the id of the session's own runtime            *)
WhatAmI == {"Router", "Peer", "Client"}
ZenohIds == {"z1", "z2"}
runtime_zid == "z0"

(* a session nobody asks about and without transports *)
InfoIdle ==
    /\ whatami = "Peer"
    /\ transports = <<>>
    /\ routers_zid = None

(* Keys the session's publishers write to, the target expressions and *)
(* prefixes a builder is given, and the selectors queriers use        *)
PubKeys   == {<<"b">>, <<"a", "b">>, <<"a", "c">>}
Targets   == {<<"**">>, <<"a", "*">>}
Prefixes  == {<<"a">>}
Selectors == {<<"b">>, <<"a", "b">>, <<"a", "a", "b">>, <<"a", "*">>}

Sample(k, n) == [key_expr |-> k, id |-> n]

Some(v) == [tag |-> "Some", val |-> v]

Perms(S) == {f \in [1..Cardinality(S) -> S] : \A i, j \in DOMAIN f : f[i] = f[j] => i = j}

----------------------------------------------------------------------------
(* The session, as PublicationCache uses it *)

(* session.declare_subscriber(..).wait() / session.declare_queryable(..).wait() *)
declare(n) == n + 1

(* registration.undeclare(), and the Drop of a registration still alive: *)
(* whatever the outcome, the session holds the registration no more      *)
undeclare(n) == 0

----------------------------------------------------------------------------
(* PublicationCache::new *)

key_expr == pub_key_expr.val

queryable_key_expr ==
    IF queryable_prefix.tag = "None" THEN key_expr
    ELSE join(queryable_prefix.val, key_expr)

limit == IF resources_limit.tag = "None" THEN usize_MAX ELSE resources_limit.val

Init ==
    /\ pub_key_expr \in {Err} \cup {Ok(t) : t \in Targets}
    /\ queryable_prefix \in {None, Err} \cup {Ok(p) : p \in Prefixes}
    /\ history \in 0..MaxHistory
    /\ resources_limit \in {None} \cup {Some(n) : n \in 0..MaxLimit}
    /\ hlc \in BOOLEAN
    /\ bpc = "new"
    /\ subs = 0
    /\ quers = 0
    /\ stoptx = "none"
    /\ teardown = <<>>
    /\ lpc = "none"
    /\ cache = <<>>
    /\ sub_recv = <<>>
    /\ quer_recv = <<>>
    /\ query = None
    /\ pending = <<>>
    /\ replied = <<>>
    /\ published = 0
    /\ handled = <<>>
    /\ dropped = {}
    /\ InfoIdle

(* validate, without the check of the session's clock *)
validate_no_hlc_check ==
    IF pub_key_expr.tag = "Err" THEN "err_key_expr"
    ELSE IF queryable_prefix.tag = "Err" THEN "err_queryable_prefix"
    ELSE "declare_subscriber"

(* the three checks that precede any declaration *)
validate ==
    IF pub_key_expr.tag = "Err" THEN "err_key_expr"
    ELSE IF queryable_prefix.tag = "Err" THEN "err_queryable_prefix"
    ELSE IF ~hlc THEN "err_hlc"
    ELSE "declare_subscriber"

NewValidate ==
    /\ bpc = "new"
    /\ bpc' = validate
    /\ UNCHANGED <<info_vars, conf_vars, subs, quers, stoptx, teardown, loop_vars,
                   sub_recv, quer_recv, published>>

NewDeclareSubscriber ==
    /\ bpc = "declare_subscriber"
    /\ \E ok \in BOOLEAN :
          IF ok THEN /\ subs' = declare(subs)
                     /\ bpc' = "declare_queryable"
                ELSE /\ subs' = subs
                     /\ bpc' = "err_subscriber"
    /\ UNCHANGED <<info_vars, conf_vars, quers, stoptx, teardown, loop_vars,
                   sub_recv, quer_recv, published>>

(* queryable_failed_subs, with local_sub kept alive *)
queryable_failed_subs_leaked(n) == n

(* `?` on a failed declare_queryable returns and drops local_sub *)
queryable_failed_subs(n) == undeclare(n)

NewDeclareQueryable ==
    /\ bpc = "declare_queryable"
    /\ \E ok \in BOOLEAN :
          IF ok THEN /\ quers' = declare(quers)
                     /\ subs' = subs
                     /\ bpc' = "spawn"
                ELSE /\ quers' = quers
                     /\ subs' = queryable_failed_subs(subs)
                     /\ bpc' = "err_queryable"
    /\ UNCHANGED <<info_vars, conf_vars, stoptx, teardown, loop_vars,
                   sub_recv, quer_recv, published>>

NewSpawn ==
    /\ bpc = "spawn"
    /\ stoptx' = "held"
    /\ lpc' = "select"
    /\ bpc' = "open"
    /\ UNCHANGED <<info_vars, conf_vars, subs, quers, teardown, cache, query, pending,
                   replied, handled, dropped, sub_recv, quer_recv, published>>

----------------------------------------------------------------------------
(* The session delivering publications and queries *)

Publish ==
    /\ subs > 0
    /\ published < MaxPubs
    /\ Len(sub_recv) < MaxQueue
    /\ \E k \in PubKeys :
          /\ intersects(key_expr, k)
          /\ sub_recv' = Append(sub_recv, Sample(k, published + 1))
    /\ published' = published + 1
    /\ UNCHANGED <<info_vars, conf_vars, bpc, subs, quers, stoptx, teardown, loop_vars,
                   quer_recv>>

Query ==
    /\ quers > 0
    /\ Len(quer_recv) < MaxQueries
    /\ \E sel \in Selectors :
          /\ intersects(queryable_key_expr, sel)
          /\ quer_recv' = Append(quer_recv, sel)
    /\ UNCHANGED <<info_vars, conf_vars, bpc, subs, quers, stoptx, teardown, loop_vars,
                   sub_recv, published>>

----------------------------------------------------------------------------
(* The spawned task *)

(* sample_queryable_key_expr, forgetting the prefix *)
sample_key_expr_unprefixed(sample) == sample.key_expr

(* the key a sample is cached under *)
sample_queryable_key_expr(sample) ==
    IF queryable_prefix.tag # "None"
    THEN join(queryable_prefix.val, sample.key_expr)
    ELSE sample.key_expr

pop_front(queue) == IF queue = <<>> THEN queue ELSE Tail(queue)

(* record, admitting a new key while the cache holds `limit` keys *)
record_limit_off_by_one(c, k, sample) ==
    IF k \in DOMAIN c
    THEN [c EXCEPT ![k] = Append(IF Len(@) >= history THEN pop_front(@) ELSE @,
                                 sample)]
    ELSE IF Cardinality(DOMAIN c) > limit
    THEN c
    ELSE c @@ (k :> <<sample>>)

(* record, making room for a new key by emptying a full cache *)
record_evicts_on_limit(c, k, sample) ==
    IF k \in DOMAIN c
    THEN [c EXCEPT ![k] = Append(IF Len(@) >= history THEN pop_front(@) ELSE @,
                                 sample)]
    ELSE IF Cardinality(DOMAIN c) >= limit
    THEN (k :> <<sample>>)
    ELSE c @@ (k :> <<sample>>)

(* record, giving a new key the place of a cached one when the cache *)
(* is full                                                           *)
record_replaces_key(c, k, sample) ==
    IF k \in DOMAIN c
    THEN [c EXCEPT ![k] = Append(IF Len(@) >= history THEN pop_front(@) ELSE @,
                                 sample)]
    ELSE IF Cardinality(DOMAIN c) >= limit
    THEN IF DOMAIN c = {} THEN c
         ELSE LET old == CHOOSE x \in DOMAIN c : TRUE
              IN [x \in (DOMAIN c \ {old}) \cup {k} |->
                     IF x = k THEN <<sample>> ELSE c[x]]
    ELSE c @@ (k :> <<sample>>)

(* the publication branch's three cases *)
record(c, k, sample) ==
    IF k \in DOMAIN c
    THEN [c EXCEPT ![k] = Append(IF Len(@) >= history THEN pop_front(@) ELSE @,
                                 sample)]
    ELSE IF Cardinality(DOMAIN c) >= limit
    THEN c
    ELSE c @@ (k :> <<sample>>)

(* the branch that logs "resource_limit exceeded" *)
resource_limit_exceeded(c, k) ==
    k \notin DOMAIN c /\ Cardinality(DOMAIN c) >= limit

(* LoopPublication, also run while a query's replies are under way *)
LoopPublicationConcurrent ==
    /\ lpc \in {"select", "replying"}
    /\ sub_recv # <<>>
    /\ LET sample == Head(sub_recv)
           k == sample_queryable_key_expr(sample)
       IN /\ cache' = record(cache, k, sample)
          /\ dropped' = IF resource_limit_exceeded(cache, k)
                        THEN dropped \cup {sample} ELSE dropped
          /\ handled' = Append(handled, sample)
    /\ sub_recv' = Tail(sub_recv)
    /\ UNCHANGED <<info_vars, conf_vars, bpc, subs, quers, stoptx, teardown, lpc, query,
                   pending, replied, quer_recv, published>>

LoopPublication ==
    /\ lpc = "select"
    /\ sub_recv # <<>>
    /\ LET sample == Head(sub_recv)
           k == sample_queryable_key_expr(sample)
       IN /\ cache' = record(cache, k, sample)
          /\ dropped' = IF resource_limit_exceeded(cache, k)
                        THEN dropped \cup {sample} ELSE dropped
          /\ handled' = Append(handled, sample)
    /\ sub_recv' = Tail(sub_recv)
    /\ UNCHANGED <<info_vars, conf_vars, bpc, subs, quers, stoptx, teardown, lpc, query,
                   pending, replied, quer_recv, published>>

(* exact_replies, walking the queue from its back *)
exact_replies_newest_first(c, sel) ==
    IF sel \in DOMAIN c
    THEN [i \in 1..Len(c[sel]) |-> c[sel][Len(c[sel]) + 1 - i]]
    ELSE <<>>

(* the exact branch: the queue stored under the selector, if any *)
exact_replies(c, sel) == IF sel \in DOMAIN c THEN c[sel] ELSE <<>>

(* matching_replies, without the intersection test *)
RECURSIVE all_replies(_, _, _)
all_replies(c, sel, order) ==
    IF order = <<>> THEN <<>>
    ELSE c[Head(order)] \o all_replies(c, sel, Tail(order))

(* the wildcard branch: cache.iter() visits the keys in some order *)
RECURSIVE matching_replies(_, _, _)
matching_replies(c, sel, order) ==
    IF order = <<>> THEN <<>>
    ELSE (IF intersects(sel, Head(order)) THEN c[Head(order)] ELSE <<>>)
         \o matching_replies(c, sel, Tail(order))

(* LoopQuery, taking the exact key's queue out of the cache (remove, *)
(* not get)                                                          *)
LoopQueryDraining ==
    /\ lpc = "select"
    /\ quer_recv # <<>>
    /\ LET sel == Head(quer_recv)
       IN /\ query' = Some(sel)
          /\ IF ~contains_wildcard(sel)
             THEN /\ pending' = exact_replies(cache, sel)
                  /\ cache' = [k \in DOMAIN cache \ {sel} |-> cache[k]]
             ELSE /\ \E order \in Perms(DOMAIN cache) :
                        pending' = matching_replies(cache, sel, order)
                  /\ cache' = cache
    /\ quer_recv' = Tail(quer_recv)
    /\ replied' = <<>>
    /\ lpc' = "replying"
    /\ UNCHANGED <<info_vars, conf_vars, bpc, subs, quers, stoptx, teardown,
                   handled, dropped, sub_recv, published>>

LoopQuery ==
    /\ lpc = "select"
    /\ quer_recv # <<>>
    /\ LET sel == Head(quer_recv)
       IN /\ query' = Some(sel)
          /\ IF ~contains_wildcard(sel)
             THEN pending' = exact_replies(cache, sel)
             ELSE \E order \in Perms(DOMAIN cache) :
                     pending' = matching_replies(cache, sel, order)
    /\ quer_recv' = Tail(quer_recv)
    /\ replied' = <<>>
    /\ lpc' = "replying"
    /\ UNCHANGED <<info_vars, conf_vars, bpc, subs, quers, stoptx, teardown, cache,
                   handled, dropped, sub_recv, published>>

(* LoopReply, giving up the query's remaining samples on an Err *)
LoopReplyAbortOnErr ==
    /\ lpc = "replying"
    /\ pending # <<>>
    /\ \E ok \in BOOLEAN :
          /\ replied' = Append(replied, [sample |-> Head(pending), ok |-> ok])
          /\ pending' = IF ok THEN Tail(pending) ELSE <<>>
    /\ UNCHANGED <<info_vars, conf_vars, bpc, subs, quers, stoptx, teardown, lpc, cache,
                   query, handled, dropped, sub_recv, quer_recv, published>>

(* query.reply(Ok(sample.clone())).await, Ok or Err (logged) *)
LoopReply ==
    /\ lpc = "replying"
    /\ pending # <<>>
    /\ \E ok \in BOOLEAN :
          replied' = Append(replied, [sample |-> Head(pending), ok |-> ok])
    /\ pending' = Tail(pending)
    /\ UNCHANGED <<info_vars, conf_vars, bpc, subs, quers, stoptx, teardown, lpc, cache,
                   query, handled, dropped, sub_recv, quer_recv, published>>

(* the reply loops are over: back to select! *)
LoopQueryEnd ==
    /\ lpc = "replying"
    /\ pending = <<>>
    /\ lpc' = "select"
    /\ query' = None
    /\ replied' = <<>>
    /\ UNCHANGED <<info_vars, conf_vars, bpc, subs, quers, stoptx, teardown, cache,
                   pending, handled, dropped, sub_recv, quer_recv, published>>

(* LoopStop, also taken when the publication stream is closed *)
LoopStopOnClosedStream ==
    /\ lpc = "select"
    /\ stoptx = "dropped" \/ (subs = 0 /\ sub_recv = <<>>)
    /\ lpc' = "done"
    /\ UNCHANGED <<info_vars, conf_vars, bpc, subs, quers, stoptx, teardown, cache, query,
                   pending, replied, handled, dropped, sub_recv, quer_recv,
                   published>>

(* stoprx.next() resolves once stoptx is dropped: return *)
LoopStop ==
    /\ lpc = "select"
    /\ stoptx = "dropped"
    /\ lpc' = "done"
    /\ UNCHANGED <<info_vars, conf_vars, bpc, subs, quers, stoptx, teardown, cache, query,
                   pending, replied, handled, dropped, sub_recv, quer_recv,
                   published>>

(* recv_async() resolves to Err on a stream the session has closed: *)
(* neither `if let Ok` arm runs and the loop selects again          *)
LoopRecvClosed ==
    /\ lpc = "select"
    /\ \/ subs = 0 /\ sub_recv = <<>>
       \/ quers = 0 /\ quer_recv = <<>>
    /\ UNCHANGED vars

----------------------------------------------------------------------------
(* PublicationCache::close *)

(* after_queryable_undeclare, with _local_sub forgotten instead of dropped *)
after_queryable_undeclare_forgets(ok) ==
    IF ok THEN <<>> ELSE <<"stoptx">>

(* after_queryable_undeclare, with _queryable still owned after the failed *)
(* undeclare and undeclared again by its drop                              *)
after_queryable_undeclare_twice(ok) ==
    IF ok THEN <<>> ELSE <<"stoptx", "subscriber", "queryable">>

(* what is left to run once _queryable.undeclare() has resolved: on Err the  *)
(* `?` returns and the remaining bindings are dropped in reverse order of    *)
(* declaration, _stoptx before _local_sub                                    *)
after_queryable_undeclare(ok) ==
    IF ok THEN <<>> ELSE <<"stoptx", "subscriber">>

CloseUndeclareQueryable ==
    /\ bpc = "open"
    /\ \E ok \in BOOLEAN :
          LET rest == after_queryable_undeclare(ok)
          IN /\ quers' = undeclare(quers)
             /\ teardown' = Append(teardown, "queryable") \o rest
             /\ subs' = IF \E i \in DOMAIN rest : rest[i] = "subscriber"
                        THEN undeclare(subs) ELSE subs
             /\ stoptx' = IF \E i \in DOMAIN rest : rest[i] = "stoptx"
                          THEN "dropped" ELSE stoptx
             /\ bpc' = IF ok THEN "undeclare_subscriber"
                       ELSE "close_err_queryable"
    /\ UNCHANGED <<info_vars, conf_vars, loop_vars, sub_recv, quer_recv, published>>

CloseUndeclareSubscriber ==
    /\ bpc = "undeclare_subscriber"
    /\ subs' = undeclare(subs)
    /\ \E ok \in BOOLEAN :
          IF ok THEN /\ teardown' = Append(teardown, "subscriber")
                     /\ stoptx' = stoptx
                     /\ bpc' = "drop_stoptx"
                ELSE /\ teardown' = teardown \o <<"subscriber", "stoptx">>
                     /\ stoptx' = "dropped"
                     /\ bpc' = "close_err_subscriber"
    /\ UNCHANGED <<info_vars, conf_vars, quers, loop_vars, sub_recv, quer_recv, published>>

CloseDropStoptx ==
    /\ bpc = "drop_stoptx"
    /\ stoptx' = "dropped"
    /\ teardown' = Append(teardown, "stoptx")
    /\ bpc' = "closed"
    /\ UNCHANGED <<info_vars, conf_vars, subs, quers, loop_vars, sub_recv, quer_recv,
                   published>>

----------------------------------------------------------------------------

(* The session's transports and SessionInfo::routers_zid (info.rs) *)

(* a transport of the manager; get_whatami() and get_zid() answer Ok *)
(* while it is open                                                   *)
TransportOpen ==
    /\ Len(transports) < MaxTransports
    /\ \E w \in WhatAmI, z \in ZenohIds :
          /\ \A i \in DOMAIN transports : transports[i].peer # z
          /\ transports' = Append(transports,
                 [peer |-> z, get_whatami |-> Ok(w), get_zid |-> Ok(z)])
    /\ UNCHANGED <<cache_vars, whatami, routers_zid>>

(* a transport closes: its getters answer Err from now on, one of *)
(* them possibly before the other                                  *)
TransportClose ==
    /\ \E i \in DOMAIN transports, gw \in BOOLEAN, gz \in BOOLEAN :
          /\ gw \/ gz
          /\ transports[i].get_whatami.tag = "Ok" \/ transports[i].get_zid.tag = "Ok"
          /\ transports' = [transports EXCEPT
                 ![i].get_whatami = IF gw THEN Err ELSE @,
                 ![i].get_zid = IF gz THEN Err ELSE @]
          /\ transports' # transports
    /\ UNCHANGED <<cache_vars, whatami, routers_zid>>

(* the manager forgets a closed transport *)
TransportDelete ==
    /\ \E i \in DOMAIN transports :
          /\ transports[i].get_whatami.tag = "Err"
          /\ transports[i].get_zid.tag = "Err"
          /\ transports' = [j \in 1..(Len(transports) - 1) |->
                               IF j < i THEN transports[j] ELSE transports[j + 1]]
    /\ UNCHANGED <<cache_vars, whatami, routers_zid>>

(* the closure given to filter_map *)
router_zid(s) ==
    IF s.get_whatami.tag = "Ok"
    THEN IF s.get_whatami.val = "Router"
         THEN (IF s.get_zid.tag = "Ok" THEN Some(s.get_zid.val) ELSE None)
         ELSE None
    ELSE None

(* get_transports().into_iter().filter_map(..) *)
RECURSIVE filter_map_router_zid(_)
filter_map_router_zid(ts) ==
    IF ts = <<>> THEN <<>>
    ELSE (IF router_zid(Head(ts)).tag = "Some"
          THEN <<router_zid(Head(ts)).val>> ELSE <<>>)
         \o filter_map_router_zid(Tail(ts))

(* session.info().routers_zid().await *)
RoutersZid ==
    /\ routers_zid = None
    /\ routers_zid' = Some(filter_map_router_zid(transports))
    /\ UNCHANGED <<cache_vars, whatami, transports>>

(* while let Some(router_zid) = routers_zid.next() {}, then the *)
(* iterator is dropped                                            *)
RoutersZidNext ==
    /\ routers_zid # None
    /\ routers_zid' = IF routers_zid.val = <<>> THEN None
                      ELSE Some(Tail(routers_zid.val))
    /\ UNCHANGED <<cache_vars, whatami, transports>>

----------------------------------------------------------------------------

Next ==
    \/ NewValidate
    \/ NewDeclareSubscriber
    \/ NewDeclareQueryable
    \/ NewSpawn
    \/ Publish
    \/ Query
    \/ LoopPublication
    \/ LoopQuery
    \/ LoopReply
    \/ LoopQueryEnd
    \/ LoopStop
    \/ LoopRecvClosed
    \/ CloseUndeclareQueryable
    \/ CloseUndeclareSubscriber
    \/ CloseDropStoptx

Spec == Init /\ [][Next]_vars

(* The cache at work: new() has returned Ok and close() is not called *)
InitCache ==
    /\ pub_key_expr \in {Ok(t) : t \in Targets}
    /\ queryable_prefix \in {None} \cup {Ok(p) : p \in Prefixes}
    /\ history \in 0..MaxHistory
    /\ resources_limit \in {None} \cup {Some(n) : n \in 0..MaxLimit}
    /\ hlc = TRUE
    /\ bpc = "open"
    /\ subs = declare(0)
    /\ quers = declare(0)
    /\ stoptx = "held"
    /\ teardown = <<>>
    /\ lpc = "select"
    /\ cache = <<>>
    /\ sub_recv = <<>>
    /\ quer_recv = <<>>
    /\ query = None
    /\ pending = <<>>
    /\ replied = <<>>
    /\ published = 0
    /\ handled = <<>>
    /\ dropped = {}
    /\ InfoIdle

NextCache ==
    \/ Publish
    \/ Query
    \/ LoopPublication
    \/ LoopQuery
    \/ LoopReply
    \/ LoopQueryEnd

SpecCache == InitCache /\ [][NextCache]_vars

(* A handle from new() to the end of close(), the builder left at its *)
(* default history and resources_limit                                *)
InitHandle ==
    /\ InitCache
    /\ history = 1
    /\ resources_limit = None

NextHandle ==
    \/ Publish
    \/ Query
    \/ LoopPublication
    \/ LoopQuery
    \/ LoopReply
    \/ LoopQueryEnd
    \/ LoopStop
    \/ LoopRecvClosed
    \/ CloseUndeclareQueryable
    \/ CloseUndeclareSubscriber
    \/ CloseDropStoptx

SpecHandle == InitHandle /\ [][NextHandle]_vars

(* select! takes a ready branch in the end and every reply resolves *)
SpecFair ==
    /\ SpecHandle
    /\ WF_vars(LoopReply)
    /\ WF_vars(LoopQueryEnd)
    /\ WF_vars(LoopStop)

(* select! takes every branch that is ready again and again, but a reply *)
(* may never resolve                                                     *)
SpecStall ==
    /\ SpecHandle
    /\ SF_vars(LoopPublication)
    /\ SF_vars(LoopQuery)
    /\ WF_vars(LoopQueryEnd)
    /\ SF_vars(LoopStop)

(* A session of any role, its transports coming and going, asked for *)
(* its routers; no publication cache is built on it                   *)
InitInfo ==
    /\ whatami \in WhatAmI
    /\ transports = <<>>
    /\ routers_zid = None
    /\ pub_key_expr = Err
    /\ queryable_prefix = None
    /\ history = 1
    /\ resources_limit = None
    /\ hlc = TRUE
    /\ bpc = "new"
    /\ subs = 0
    /\ quers = 0
    /\ stoptx = "none"
    /\ teardown = <<>>
    /\ lpc = "none"
    /\ cache = <<>>
    /\ sub_recv = <<>>
    /\ quer_recv = <<>>
    /\ query = None
    /\ pending = <<>>
    /\ replied = <<>>
    /\ published = 0
    /\ handled = <<>>
    /\ dropped = {}

NextInfo ==
    \/ TransportOpen
    \/ TransportClose
    \/ TransportDelete
    \/ RoutersZid
    \/ RoutersZidNext

SpecInfo == InitInfo /\ [][NextInfo]_vars

(* new() up to its return *)
NextNew ==
    \/ NewValidate
    \/ NewDeclareSubscriber
    \/ NewDeclareQueryable
    \/ NewSpawn
    \/ Publish
    \/ Query

SpecNew == Init /\ [][NextNew]_vars

----------------------------------------------------------------------------
(* Vocabulary of the properties *)

Range(s) == {s[i] : i \in DOMAIN s}

Samples(r) == [i \in DOMAIN r |-> r[i].sample]

(* the replies the query in hand has got and is still to get *)
Answer == Samples(replied) \o pending

Answering == lpc = "replying"
Answered  == lpc = "replying" /\ pending = <<>>

(* the samples of s cached under key k, in the order of s *)
Under(s, k) ==
    LET test(x) == sample_queryable_key_expr(x) = k IN SelectSeq(s, test)

LastN(s, n) == SubSeq(s, Len(s) - n + 1, Len(s))

(* the distinct keys of the samples of s, in order of first appearance *)
RECURSIVE Keys(_)
Keys(s) ==
    IF s = <<>> THEN <<>>
    ELSE LET rest == Keys(SubSeq(s, 1, Len(s) - 1))
             k == sample_queryable_key_expr(s[Len(s)])
         IN IF k \in Range(rest) THEN rest ELSE Append(rest, k)

Min(a, b) == IF a <= b THEN a ELSE b

----------------------------------------------------------------------------
(* C1: whatever `history` the builder was given, 0 included, every queue *)
(* of the cache holds at most `history` samples.                         *)
C1_HistoryBound ==
    \A k \in DOMAIN cache : Len(cache[k]) <= history

(* C2: once N >= history publications under a key have been handled, an *)
(* exact query on that key (one the cache admitted) is answered with     *)
(* exactly the last `history` of them, oldest first.                     *)
C2_HistoryReplay ==
    (Answered /\ ~contains_wildcard(query.val) /\ query.val \in DOMAIN cache
       /\ Len(Under(handled, query.val)) >= history)
    => Samples(replied) = LastN(Under(handled, query.val), history)

(* C3: with resources_limit = L the cache never holds more than L keys: *)
(* they are the first L distinct keys published, an exact query on them  *)
(* is answered and one on any later key is not; without resources_limit  *)
(* nothing is dropped for capacity.                                      *)
C3_ResourceLimit ==
    /\ resources_limit.tag = "Some" =>
          LET L == resources_limit.val
              ks == Keys(handled)
              first == {ks[i] : i \in 1..Min(L, Len(ks))}
          IN /\ Cardinality(DOMAIN cache) <= L
             /\ DOMAIN cache = first
             /\ (Answered /\ ~contains_wildcard(query.val))
                   => (replied # <<>> <=> query.val \in first)
    /\ resources_limit.tag = "None" =>
          /\ dropped = {}
          /\ DOMAIN cache = Range(Keys(handled))

C3_Witness ==
    /\ resources_limit.tag = "Some"
    /\ resources_limit.val >= 1
    /\ Len(Keys(handled)) = resources_limit.val + 1
    /\ Answered
    /\ query.val = Keys(handled)[resources_limit.val + 1]
    /\ replied = <<>>

(* does cached key k answer selector sel *)
Matches(sel, k) == IF contains_wildcard(sel) THEN intersects(sel, k) ELSE sel = k

(* C4: at resources_limit a publication under a new key changes nothing  *)
(* in the cache and the loop goes on; one under a present key is still   *)
(* appended, the oldest sample leaving when the queue is at `history`;   *)
(* and queries handled after a drop get every matching cached sample.    *)
C4_CapacityErrorNonFatal ==
    /\ [][(handled' # handled /\ resources_limit.tag = "Some") =>
            LET sample == handled'[Len(handled')]
                k == sample_queryable_key_expr(sample)
                full == Cardinality(DOMAIN cache) >= resources_limit.val
            IN /\ (full /\ k \notin DOMAIN cache) =>
                     /\ cache' = cache
                     /\ lpc' = "select"
                     /\ quer_recv' = quer_recv
               /\ (k \in DOMAIN cache) =>
                     /\ DOMAIN cache' = DOMAIN cache
                     /\ \A o \in DOMAIN cache \ {k} : cache'[o] = cache[o]
                     /\ cache'[k] = Append(IF Len(cache[k]) >= history
                                           THEN Tail(cache[k]) ELSE cache[k],
                                           sample)
                     /\ lpc' = "select"]_vars
    /\ []((dropped # {} /\ Answered) =>
            \A k \in DOMAIN cache :
               Matches(query.val, k) => Under(Samples(replied), k) = cache[k])

(* a drop at the limit, then a publication recorded under a present key, *)
(* then a query answered                                                 *)
C4_Witness ==
    /\ resources_limit.tag = "Some"
    /\ Answered
    /\ replied # <<>>
    /\ \E d \in dropped : \E k \in DOMAIN cache : \E i \in DOMAIN cache[k] :
          cache[k][i].id > d.id

(* C5: a query without wildcard is answered with exactly the queue       *)
(* stored under its key, one reply per sample, oldest first, and with     *)
(* nothing when the key is absent.                                        *)
C5_ExactMatchReplay ==
    (Answering /\ ~contains_wildcard(query.val)) =>
        /\ query.val \in DOMAIN cache => Answer = cache[query.val]
        /\ query.val \notin DOMAIN cache => Answer = <<>>
        /\ \A i, j \in DOMAIN Answer : i < j => Answer[i].id < Answer[j].id
        /\ \A i \in DOMAIN Answer :
              sample_queryable_key_expr(Answer[i]) = query.val

C5_Witness ==
    /\ Answered
    /\ ~contains_wildcard(query.val)
    /\ Len(replied) >= 2
    /\ Samples(replied) = cache[query.val]

(* C6: a query with a wildcard is answered with every sample of every   *)
(* cached key intersecting the selector, each key's samples oldest first, *)
(* and with no sample of any other key; the keys come in any order.       *)
C6_WildcardReplay ==
    (Answering /\ contains_wildcard(query.val)) =>
        /\ \A k \in DOMAIN cache :
              Under(Answer, k) = IF intersects(query.val, k) THEN cache[k]
                                 ELSE <<>>
        /\ \A i \in DOMAIN Answer :
              sample_queryable_key_expr(Answer[i]) \in DOMAIN cache
        /\ \A i, j \in DOMAIN Answer :
              (i < j /\ sample_queryable_key_expr(Answer[i])
                          = sample_queryable_key_expr(Answer[j]))
                 => Answer[i].id < Answer[j].id

(* two intersecting keys answered, the later published one first, and a *)
(* cached key that does not intersect                                    *)
C6_Witness ==
    /\ Answered
    /\ contains_wildcard(query.val)
    /\ Len(replied) = 2
    /\ replied[1].sample.key_expr # replied[2].sample.key_expr
    /\ replied[1].sample.id > replied[2].sample.id
    /\ \E k \in DOMAIN cache : ~intersects(query.val, k)

(* C7 as stated: with a prefix every sample is stored under prefix/key,  *)
(* and an exact query on the bare key of a publication gets no reply.    *)
C7_BareKeyNoReply ==
    /\ \A k \in DOMAIN cache : \A i \in DOMAIN cache[k] :
          k = IF queryable_prefix.tag = "Ok"
              THEN join(queryable_prefix.val, cache[k][i].key_expr)
              ELSE cache[k][i].key_expr
    /\ (queryable_prefix.tag = "Ok" /\ Answered /\ ~contains_wildcard(query.val)
          /\ \E s \in Range(handled) : s.key_expr = query.val)
       => replied = <<>>

(* C7, amended: with a prefix every sample is stored under prefix/key    *)
(* (under its own key without one); every reply to a query carries a     *)
(* sample whose stored key the selector matches, so an exact query on a  *)
(* bare key is never answered with a sample published under that key,    *)
(* and an exact query on a stored key is answered.                       *)
C7_PrefixAddressing ==
    /\ \A k \in DOMAIN cache : \A i \in DOMAIN cache[k] :
          k = IF queryable_prefix.tag = "Ok"
              THEN join(queryable_prefix.val, cache[k][i].key_expr)
              ELSE cache[k][i].key_expr
    /\ Answering =>
          \A i \in DOMAIN Answer :
             /\ Matches(query.val,
                        IF queryable_prefix.tag = "Ok"
                        THEN join(queryable_prefix.val, Answer[i].key_expr)
                        ELSE Answer[i].key_expr)
             /\ (queryable_prefix.tag = "Ok" /\ ~contains_wildcard(query.val))
                   => Answer[i].key_expr # query.val
    /\ (Answered /\ ~contains_wildcard(query.val) /\ query.val \in DOMAIN cache)
          => replied # <<>>

(* a publication under k is cached under prefix/k, and an exact query on *)
(* the bare k has been answered                                          *)
C7_Witness ==
    /\ queryable_prefix.tag = "Ok"
    /\ Answered
    /\ ~contains_wildcard(query.val)
    /\ \E s \in Range(handled) : s.key_expr = query.val
    /\ join(queryable_prefix.val, query.val) \in DOMAIN cache

(* C8: when the target key expression or the queryable prefix is invalid *)
(* or the session has no clock, new() fails before declaring anything:    *)
(* no subscription, no queryable, no stop channel, no task.               *)
C8_ValidationNoSideEffects ==
    /\ (pub_key_expr.tag = "Err" \/ queryable_prefix.tag = "Err" \/ ~hlc) =>
          bpc \in {"new", "err_key_expr", "err_queryable_prefix", "err_hlc"}
    /\ bpc \in {"new", "err_key_expr", "err_queryable_prefix", "err_hlc"} =>
          /\ subs = 0
          /\ quers = 0
          /\ stoptx = "none"
          /\ lpc = "none"
          /\ sub_recv = <<>>
          /\ quer_recv = <<>>

C8_Witness ==
    /\ bpc = "err_hlc"
    /\ pub_key_expr.tag = "Ok"
    /\ queryable_prefix.tag = "Ok"
    /\ ~hlc

(* C9: when declare_queryable fails after declare_subscriber succeeded,  *)
(* new() has failed with the subscription undeclared again, no queryable  *)
(* and no task.                                                           *)
C9_RollbackOnQueryableFailure ==
    bpc = "err_queryable" =>
        /\ subs = 0
        /\ quers = 0
        /\ stoptx = "none"
        /\ lpc = "none"

C9_Witness ==
    /\ bpc = "err_queryable"
    /\ subs = 0
    /\ sub_recv # <<>>

(* C10: in every close, failed or not, the queryable is undeclared before *)
(* the subscription and stoptx is dropped after both.                      *)
C10_CloseOrdering ==
    /\ \A i, j \in DOMAIN teardown :
          (teardown[i] = "queryable" /\ teardown[j] = "subscriber") => i < j
    /\ \A i \in DOMAIN teardown :
          teardown[i] = "stoptx" =>
             /\ \E j \in 1..(i - 1) : teardown[j] = "queryable"
             /\ \E j \in 1..(i - 1) : teardown[j] = "subscriber"

(* close() has returned, Ok or Err *)
CloseReturned == bpc \in {"closed", "close_err_queryable", "close_err_subscriber"}

Count(s, x) == Cardinality({i \in DOMAIN s : s[i] = x})

(* C11: whichever undeclare fails, close returns that first error, and by *)
(* its return the queryable and the subscription have both been            *)
(* undeclared and stoptx has been dropped.                                 *)
C11_CloseUnderErrors ==
    /\ CloseReturned =>
          /\ Count(teardown, "queryable") >= 1
          /\ Count(teardown, "subscriber") >= 1
          /\ stoptx = "dropped"
          /\ quers = 0
          /\ subs = 0
    /\ bpc = "close_err_queryable" => teardown[1] = "queryable" /\ teardown[2] # "subscriber"
    /\ bpc = "close_err_subscriber" => teardown = <<"queryable", "subscriber", "stoptx">>
    /\ bpc = "closed" => teardown = <<"queryable", "subscriber", "stoptx">>

C11_Witness ==
    /\ bpc = "close_err_queryable"
    /\ Count(teardown, "subscriber") = 1
    /\ stoptx = "dropped"

(* C13: once close() has returned, the loop makes no further reply,     *)
(* wherever the loop and the query stream stood at that moment.          *)
C13_NoReplyAfterTeardown ==
    [][CloseReturned => Len(replied') <= Len(replied)]_vars

(* C19: over a handle's life the queryable and the subscription are each *)
(* undeclared at most once (and stoptx dropped at most once), and a      *)
(* handle that close() has taken is never open again.                    *)
C19_AtMostOnceUndeclare ==
    /\ [](/\ Count(teardown, "queryable") <= 1
          /\ Count(teardown, "subscriber") <= 1
          /\ Count(teardown, "stoptx") <= 1)
    /\ [][bpc # "open" => bpc' # "open"]_vars

C19_Witness ==
    /\ bpc = "close_err_subscriber"
    /\ Count(teardown, "queryable") = 1
    /\ Count(teardown, "subscriber") = 1

(* C12: once stoptx is dropped the task returns in the end (select!     *)
(* being fair and replies resolving); it returns only from select! with  *)
(* stoptx dropped, never on a closed stream alone, and after returning   *)
(* it handles nothing.                                                   *)
C12_LoopTermination ==
    /\ (stoptx = "dropped") ~> (lpc = "done")
    /\ [](lpc = "done" => stoptx = "dropped")
    /\ [][(lpc' = "done" /\ lpc # "done") => lpc = "select"]_vars
    /\ [][lpc = "done" => UNCHANGED <<loop_vars, sub_recv, quer_recv>>]_vars

(* the task has returned leaving a query unanswered in its stream *)
C12_Witness ==
    /\ lpc = "done"
    /\ quer_recv # <<>>
    /\ bpc = "closed"

(* C15: while a reply is pending only that query waits: a publication    *)
(* waiting in the stream is recorded in the end and a dropped stoptx     *)
(* stops the task in the end, whether or not the reply ever resolves.    *)
C15_SlowQuerierIsolation ==
    /\ (lpc = "replying" /\ pending # <<>> /\ sub_recv # <<>>)
          ~> (sub_recv = <<>> \/ lpc = "done")
    /\ (lpc = "replying" /\ pending # <<>> /\ stoptx = "dropped")
          ~> (lpc = "done")

(* what a query on selector sel is owed from cache c: a is one of the *)
(* sequences the reply loops may walk                                  *)
Replay(c, sel, a) ==
    IF ~contains_wildcard(sel)
    THEN a = exact_replies(c, sel)
    ELSE \E order \in Perms(DOMAIN c) : a = matching_replies(c, sel, order)

(* C14: a failed reply is not fatal: whatever the outcome of a reply,   *)
(* the samples already attempted together with those still to attempt   *)
(* stay the same and the cache is untouched; the query's handling ends  *)
(* only when nothing is left to attempt, with every matching sample     *)
(* attempted (exact and wildcard path), and the task is back in select! *)
C14_ReplyFailureNonFatal ==
    [][lpc = "replying" =>
         /\ cache' = cache
         /\ lpc' = "replying" => (Answer' = Answer /\ query' = query)
         /\ lpc' # "replying" =>
               /\ lpc' = "select"
               /\ pending = <<>>
               /\ Replay(cache, query.val, Samples(replied))
      ]_vars

(* a query's replies are all attempted although the first one failed *)
C14_Witness ==
    /\ Answered
    /\ Len(replied) >= 2
    /\ ~replied[1].ok

(* C17: one event per iteration and no interleaving: a step of the     *)
(* task started in select! either records one publication or takes one *)
(* query, never both; while a query is being answered no publication   *)
(* is recorded and no other query is taken; and at every moment of the *)
(* answer, replies sent and replies to come are what the cache owed    *)
(* when the query was taken.                                           *)
C17_AtomicEventHandling ==
    /\ [](Answering => Replay(cache, query.val, Answer))
    /\ [][lpc = "replying" =>
             /\ cache' = cache
             /\ handled' = handled
             /\ dropped' = dropped
             /\ Len(sub_recv') >= Len(sub_recv)
             /\ Len(quer_recv') >= Len(quer_recv)
             /\ lpc' = "replying" => Answer' = Answer
         ]_vars
    /\ [][lpc = "select" =>
             /\ Len(handled') <= Len(handled) + 1
             /\ Len(sub_recv') >= Len(sub_recv) - 1
             /\ Len(quer_recv') >= Len(quer_recv) - 1
             /\ ~(handled' # handled /\ lpc' = "replying")
         ]_vars

(* a publication waits in the stream between two replies of one query *)
C17_Witness ==
    /\ lpc = "replying"
    /\ replied # <<>>
    /\ pending # <<>>
    /\ sub_recv # <<>>

(* C18: queries only read: taking a query, each of its replies (sent   *)
(* or failed) and the end of its handling leave the cache as it was;   *)
(* every reply carries a sample the task received as a publication,    *)
(* unchanged, held in the cache under a key the selector matches; and  *)
(* for each key the replies are the key's queue if the selector        *)
(* matches it and nothing otherwise, so that the same selector on the  *)
(* same cache gets the same replies key by key.                        *)
C18_QueriesReadOnly ==
    /\ [][(lpc = "replying" \/ lpc' = "replying") =>
             (cache' = cache /\ handled' = handled /\ dropped' = dropped)
         ]_vars
    /\ [](Answering =>
             /\ \A i \in DOMAIN Answer :
                   /\ Answer[i] \in Range(handled)
                   /\ \E k \in DOMAIN cache :
                         /\ Matches(query.val, k)
                         /\ Answer[i] \in Range(cache[k])
             /\ \A k \in DOMAIN cache :
                   Under(Answer, k) =
                      IF Matches(query.val, k) THEN cache[k] ELSE <<>>)

(* a query has been answered from a cache that holds two samples under *)
(* one key, one reply having failed                                    *)
C18_Witness ==
    /\ Answered
    /\ \E k \in DOMAIN cache :
          /\ Len(cache[k]) = 2
          /\ Under(Samples(replied), k) = cache[k]
    /\ \E i \in DOMAIN replied : ~replied[i].ok

(* C20: cached keys are permanent and never empty: no step removes a   *)
(* key from the cache, every cached queue holds at least one sample,   *)
(* and from the moment the cache holds `limit` keys its key set stays  *)
(* the same: a publication under any other key is dropped, leaving the *)
(* cache as it was.                                                    *)
C20_KeysPermanent ==
    /\ [](\A k \in DOMAIN cache : cache[k] # <<>>)
    /\ [][DOMAIN cache \subseteq DOMAIN cache']_vars
    /\ [][Cardinality(DOMAIN cache) >= limit =>
             /\ DOMAIN cache' = DOMAIN cache
             /\ (/\ handled' # handled
                 /\ sample_queryable_key_expr(Head(sub_recv)) \notin DOMAIN cache)
                => (cache' = cache /\ Head(sub_recv) \in dropped')
         ]_vars

(* a cache of one key has turned away two publications under other keys *)
C20_Witness ==
    /\ resources_limit = Some(1)
    /\ Cardinality(DOMAIN cache) = 1
    /\ Cardinality(dropped) >= 2
    /\ \A x \in dropped : sample_queryable_key_expr(x) \notin DOMAIN cache

(* C16: a routers_zid() call returns the ids of the routers the session *)
(* is connected to, and on a router the router's own id: every          *)
(* transport that answers Router and gives its id is in the result,     *)
(* every id of the result is that of a transport answering Router (so   *)
(* none of a Peer or Client), and when the session itself runs as a     *)
(* router its own id is in the result.                                  *)
C16_RoutersZid ==
    [][(routers_zid = None /\ routers_zid' # None) =>
         LET result == Range(routers_zid'.val) IN
         /\ \A i \in DOMAIN transports :
               (/\ transports[i].get_whatami = Ok("Router")
                /\ transports[i].get_zid.tag = "Ok")
               => transports[i].get_zid.val \in result
         /\ \A z \in result \ {runtime_zid} :
               \E i \in DOMAIN transports :
                  /\ transports[i].get_whatami = Ok("Router")
                  /\ transports[i].get_zid = Ok(z)
         /\ whatami = "Router" => runtime_zid \in result
      ]_vars

====
